---------------------------- MODULE Spec2Model ----------------------------
(***************************************************************************)
(* The version-checking read repository middleware (package version) of    *)
(* eventhorizon: Repo.Find wraps the Find of another repository and, when  *)
(* the context asks for a minimum version, polls the wrapped repository    *)
(* with exponential backoff until the version is reached or the context    *)
(* is done.                                                                *)
(*                                                                         *)
(* One call of Find is modelled together with its environment: the store   *)
(* behind the wrapped repository (one identifier), which other goroutines  *)
(* save to and remove from, the context (deadline, cancellation), and a    *)
(* clock.  One unit of the clock is 10 ms; time 0 is the moment of the     *)
(* call.  The steps of Find take no time: the clock advances only while    *)
(* Find is parked in its select with neither channel ready, and the        *)
(* context's deadline fires at the deadline.                               *)
(***************************************************************************)
EXTENDS Integers, Sequences, FiniteSets, TLC

\* ------------------------------------------------------------------ bounds
MaxVersion == 3
MaxTime == 32
MaxDepth == 5      \* decorators above the concrete store in a chain
MaxRetries == 9    \* waits of one call followed in BackoffSpec

\* --------------------------------------------------------------- constants
\* delay := &backoff.Backoff{}: the zero value, so the library's defaults
\* apply: Min 100 ms, Max 10 s, Factor 2, no jitter (in units of 10 ms).
BackoffMin == 10
BackoffMax == 1000
BackoffFactor == 2

VARIABLES
  store,      \* the model stored under the identifier in the wrapped repository
  now,        \* the clock, in units of 10 ms since the call
  ctx,        \* the context handed to Find: minimum version and deadline
  ctxErr,     \* ctx.Err(): "nil" until the context is done
  pc,         \* where Find is: "start", "loop", "select", "done"
  delay,      \* the attempt counter of the call's backoff.Backoff
  timerAt,    \* when the channel of time.After(...) becomes ready (-1: no timer)
  ret,        \* what Find returned: [model, err]
  calls,      \* history: number of calls to the wrapped repository's Find
  lastRes,    \* history: what the last call to the wrapped repository returned
  hist,       \* history: facts about the run that the properties refer to
  \* the chain walker Repository(repo) (ChainSpec)
  chain,      \* the decorator chain, outermost first; <<>> is a nil repo
  wrepo,      \* the repo of the current call of Repository: an index, 0 is nil
  wpc,        \* "walk", "done"
  wret,       \* what Repository returned: the index of a gate, 0 is nil
  wsteps,     \* history: number of Parent() calls
  \* the document-store repository and the gate's other operations (RepoSpec)
  coll,       \* the MongoDB collection: identifier -> document
  factory,    \* r.factory is set
  amap,       \* history: the map the repository is compared with
  rop,        \* history: the last operation, its arguments and its result
  \* concurrent calls of Find and their backoff (BackoffSpec)
  cpc,        \* per call: "loop", "select", "done"
  cdelay,     \* per call: the attempt counter of its backoff.Backoff
  cwaits      \* history, per call: the intervals it waited

findVars == <<store, now, ctx, ctxErr, pc, delay, timerAt, ret, calls, lastRes, hist>>
chainVars == <<chain, wrepo, wpc, wret, wsteps>>
repoVars == <<coll, factory, amap, rop>>
concVars == <<cpc, cdelay, cwaits>>

vars == <<store, now, ctx, ctxErr, pc, delay, timerAt, ret, calls, lastRes, hist,
          chainVars, repoVars, concVars>>

\* ------------------------------------------------------------------ values
NilModel == [kind |-> "nil", version |-> 0]
Plain == [kind |-> "plain", version |-> 0]
Versioned(v) == [kind |-> "versioned", version |-> v]

\* The models a repository can hold: one without the Versionable capability,
\* or a versionable one with its AggregateVersion.
Models == {Plain} \cup {Versioned(v) : v \in 0..MaxVersion}

Result(m, e) == [model |-> m, err |-> e]

\* The deadlines of the contexts tried (units of 10 ms after the call); 0 is a
\* deadline that has passed when Find is called.
Deadlines == {0, 5, 10, 20, 30}

Contexts ==
  [minOk : {FALSE}, minVersion : {0}, hasDeadline : BOOLEAN, deadline : Deadlines]
  \cup [minOk : {TRUE}, minVersion : (-1)..MaxVersion, hasDeadline : BOOLEAN,
        deadline : Deadlines]

\* ------------------------------------------------------ context accessors
\* eh.MinVersionFromContext(ctx): (minVersion, ok)
MinVersionFromContext(c) == [minVersion |-> c.minVersion, ok |-> c.minOk]

\* ctx.Deadline(): (deadline, ok)
Deadline(c) == [deadline |-> c.deadline, ok |-> c.hasDeadline]

\* ------------------------------------------------------ wrapped repository
\* r.ReadWriteRepo.Find(ctx, id): the stored model, RepoError{ErrModelNotFound}
\* when there is none, or any other failure of the storage ("Internal": an
\* error that is not a RepoError with ErrModelNotFound or
\* ErrIncorrectModelVersion).
WrappedFind(s) ==
  {Result(NilModel, "Internal")}
  \cup (IF s = NilModel THEN {Result(NilModel, "NotFound")} ELSE {Result(s, "nil")})

\* ----------------------------------------------------------------- backoff
RECURSIVE Pow(_, _)
Pow(b, n) == IF n = 0 THEN 1 ELSE b * Pow(b, n - 1)

Min2(a, b) == IF a < b THEN a ELSE b

\* Mutant: the intervals start at 10 ms instead of 100 ms.
ForAttempt_Short(attempt) == Min2(Pow(BackoffFactor, Min2(attempt, 20)), BackoffMax)

\* Mutant: the interval does not grow.
ForAttempt_NoGrowth(attempt) == Min2(BackoffMin, BackoffMax)

\* Backoff.ForAttempt(attempt): Min * Factor^attempt, at most Max.
ForAttempt(attempt) == Min2(BackoffMin * Pow(BackoffFactor, Min2(attempt, 20)), BackoffMax)

\* ------------------------------------------------------------- Find's code
\* Mutant: the pass-through taken only below 0.
PassThrough_BelowZero(c) ==
  ~MinVersionFromContext(c).ok \/ MinVersionFromContext(c).minVersion < 0

\* if !ok || minVersion < 1 { return r.ReadWriteRepo.Find(ctx, id) }
PassThrough(c) ==
  ~MinVersionFromContext(c).ok \/ MinVersionFromContext(c).minVersion < 1

\* Mutant: the version is not compared with the minimum.
findMinVersion_NoCompare(res, minVersion) ==
  IF res.err # "nil" THEN Result(NilModel, res.err)
  ELSE IF res.model.kind # "versioned" THEN Result(NilModel, "ModelHasNoVersion")
  ELSE Result(res.model, "nil")

\* Mutant: a version equal to the minimum is refused (<= for <).
findMinVersion_OffByOne(res, minVersion) ==
  IF res.err # "nil" THEN Result(NilModel, res.err)
  ELSE IF res.model.kind # "versioned" THEN Result(NilModel, "ModelHasNoVersion")
  ELSE IF res.model.version <= minVersion THEN Result(NilModel, "IncorrectVersion")
  ELSE Result(res.model, "nil")

\* Mutant: the model that is too old is returned beside the error.
findMinVersion_LeaksModel(res, minVersion) ==
  IF res.err # "nil" THEN Result(NilModel, res.err)
  ELSE IF res.model.kind # "versioned" THEN Result(NilModel, "ModelHasNoVersion")
  ELSE IF res.model.version < minVersion THEN Result(res.model, "IncorrectVersion")
  ELSE Result(res.model, "nil")

\* findMinVersion(ctx, id, minVersion), given what the wrapped Find returned.
findMinVersion(res, minVersion) ==
  IF res.err # "nil" THEN Result(NilModel, res.err)
  ELSE IF res.model.kind # "versioned" THEN Result(NilModel, "ModelHasNoVersion")
  ELSE IF res.model.version < minVersion THEN Result(NilModel, "IncorrectVersion")
  ELSE Result(res.model, "nil")

\* Mutant: a model without a version is retried too.
Retryable_NoVersion(err) == err \in {"IncorrectVersion", "NotFound", "ModelHasNoVersion"}

\* Mutant: every error is retried.
Retryable_AnyError(err) == err # "nil"

\* Mutant: NotFound is not retried.
Retryable_OnlyVersion(err) == err = "IncorrectVersion"

\* rrErr.Err == eh.ErrIncorrectModelVersion || rrErr.Err == eh.ErrModelNotFound
Retryable(err) == err \in {"IncorrectVersion", "NotFound"}

\* Mutant: the retryable result is returned although there is a deadline.
LoopStep_NoRetry(r, hasDeadline) ==
  IF r.err # "nil"
    THEN [do |-> "return", ret |-> Result(NilModel, r.err)]
    ELSE [do |-> "return", ret |-> Result(r.model, "nil")]

\* Mutant: the loop waits although there is no deadline.
LoopStep_AlwaysWait(r, hasDeadline) ==
  IF r.err \in {"IncorrectVersion", "NotFound"}
    THEN [do |-> "wait", ret |-> Result(NilModel, "nil")]
    ELSE IF r.err # "nil"
           THEN [do |-> "return", ret |-> Result(NilModel, r.err)]
           ELSE [do |-> "return", ret |-> Result(r.model, "nil")]

\* What one pass of the loop body up to the select does with the result r of
\* findMinVersion: "return" with a result, or "wait".
LoopStep(r, hasDeadline) ==
  IF Retryable(r.err)
    THEN IF ~hasDeadline
           THEN [do |-> "return", ret |-> Result(r.model, r.err)]
           ELSE [do |-> "wait", ret |-> Result(NilModel, "nil")]
    ELSE IF r.err # "nil"
           THEN [do |-> "return", ret |-> Result(NilModel, r.err)]
           ELSE [do |-> "return", ret |-> Result(r.model, "nil")]

\* ----------------------------------------------------------------- history
Sufficient(m) ==
  m.kind = "versioned" /\ m.version >= ctx.minVersion

\* a wrapped Find result that is NotFound or a versionable model below the minimum
Insufficient(res) ==
  \/ res.err = "NotFound"
  \/ res.err = "nil" /\ res.model.kind = "versioned" /\ res.model.version < ctx.minVersion

NoHist ==
  [store0 |-> NilModel,     \* the store when Find was called
   reachedEarly |-> FALSE,  \* the stored version was >= minVersion before the deadline
   disturbed |-> FALSE,     \* a version decreased, a model was removed, the storage failed
   cancelled |-> FALSE,     \* the caller cancelled the context
   allInsuf |-> TRUE,       \* every wrapped Find so far was Insufficient
   lateCall |-> FALSE,      \* a wrapped Find was issued with the context done, after the first
   dueSufficient |-> FALSE, \* a backoff interval ended before the deadline, the version reached
   retriedNotFound |-> FALSE, \* Find entered the select after a NotFound
   firstCallDone |-> FALSE, \* the context was done when the first attempt was made
   waits |-> 0]             \* number of times Find entered the select

Early(s, t) == ctx.hasDeadline /\ t < ctx.deadline /\ Sufficient(s)

\* ------------------------------------------------------------ other parts
Ids == {1, 2}
Calls == {1, 2}
NoDoc == <<>>

\* No chain is walked, no repository operation made, no concurrent call runs.
ChainIdle == chain = <<>> /\ wrepo = 0 /\ wpc = "done" /\ wret = 0 /\ wsteps = 0

RepoIdle ==
  /\ coll = [i \in Ids |-> NoDoc]
  /\ factory = FALSE
  /\ amap = [i \in Ids |-> NilModel]
  /\ rop = [op |-> "none"]

ConcIdle ==
  /\ cpc = [c \in Calls |-> "done"]
  /\ cdelay = [c \in Calls |-> 0]
  /\ cwaits = [c \in Calls |-> <<>>]

\* No call of Find is followed.
FindIdle ==
  /\ store = NilModel /\ now = 0
  /\ ctx = [minOk |-> FALSE, minVersion |-> 0, hasDeadline |-> FALSE, deadline |-> 0]
  /\ ctxErr = "nil" /\ pc = "done" /\ delay = 0 /\ timerAt = -1
  /\ ret = Result(NilModel, "nil") /\ calls = 0
  /\ lastRes = Result(NilModel, "nil") /\ hist = NoHist

\* --------------------------------------------------------------------- Init
Init ==
  /\ store \in Models \cup {NilModel}
  /\ now = 0
  /\ ctx \in Contexts
  /\ ctxErr = "nil"
  /\ pc = "start"
  /\ delay = 0
  /\ timerAt = -1
  /\ ret = Result(NilModel, "nil")
  /\ calls = 0
  /\ lastRes = Result(NilModel, "nil")
  /\ hist = [NoHist EXCEPT !.store0 = store,
                           !.reachedEarly = Early(store, 0)]
  /\ ChainIdle /\ RepoIdle /\ ConcIdle

\* ------------------------------------------------------------ Find's steps
\* Mutant: the context is tested before the first attempt.
Find_Entry_ChecksCtx ==
  /\ pc = "start"
  /\ IF PassThrough(ctx)
       THEN \E res \in WrappedFind(store) :
              /\ pc' = "done"
              /\ ret' = res
              /\ calls' = calls + 1
              /\ lastRes' = res
              /\ hist' = [hist EXCEPT !.disturbed = @ \/ res.err = "Internal"]
       ELSE IF ctxErr # "nil"
              THEN /\ pc' = "done"
                   /\ ret' = Result(NilModel, ctxErr)
                   /\ UNCHANGED <<calls, lastRes, hist>>
              ELSE /\ pc' = "loop"
                   /\ UNCHANGED <<ret, calls, lastRes, hist>>
  /\ delay' = 0
  /\ UNCHANGED <<store, now, ctx, ctxErr, timerAt>>
  /\ UNCHANGED <<chainVars, repoVars, concVars>>

\* Lines 49-57: the pass-through, or the set-up of the loop.
Find_Entry ==
  /\ pc = "start"
  /\ IF PassThrough(ctx)
       THEN \E res \in WrappedFind(store) :
              /\ pc' = "done"
              /\ ret' = res
              /\ calls' = calls + 1
              /\ lastRes' = res
              /\ hist' = [hist EXCEPT !.disturbed = @ \/ res.err = "Internal"]
       ELSE /\ pc' = "loop"
            /\ UNCHANGED <<ret, calls, lastRes, hist>>
  /\ delay' = 0
  /\ UNCHANGED <<store, now, ctx, ctxErr, timerAt>>
  /\ UNCHANGED <<chainVars, repoVars, concVars>>

\* Mutant: an attempt that meets a model without version removes it from the
\* wrapped repository.
Find_Attempt_Removes ==
  /\ pc = "loop"
  /\ \E res \in WrappedFind(store) :
       LET r == findMinVersion(res, MinVersionFromContext(ctx).minVersion)
           step == LoopStep(r, Deadline(ctx).ok)
       IN /\ calls' = calls + 1
          /\ lastRes' = res
          /\ hist' = [hist EXCEPT !.disturbed = @ \/ res.err = "Internal",
                                  !.allInsuf = @ /\ Insufficient(res),
                                  !.lateCall = @ \/ (calls >= 1 /\ ctxErr # "nil"),
                                  !.firstCallDone = @ \/ (calls = 0 /\ ctxErr # "nil"),
                                  !.retriedNotFound =
                                      @ \/ (step.do = "wait" /\ res.err = "NotFound"),
                                  !.waits = IF step.do = "wait" THEN @ + 1 ELSE @]
          /\ store' = IF r.err = "ModelHasNoVersion" THEN NilModel ELSE store
          /\ IF step.do = "return"
               THEN /\ pc' = "done"
                    /\ ret' = step.ret
                    /\ UNCHANGED <<delay, timerAt>>
               ELSE /\ pc' = "select"
                    /\ timerAt' = now + ForAttempt(delay)
                    /\ delay' = delay + 1
                    /\ UNCHANGED ret
  /\ UNCHANGED <<now, ctx, ctxErr>>
  /\ UNCHANGED <<chainVars, repoVars, concVars>>

\* Lines 59-77: one attempt, and what follows it up to the select, whose
\* time.After(delay.Duration()) starts the timer.
Find_Attempt ==
  /\ pc = "loop"
  /\ \E res \in WrappedFind(store) :
       LET r == findMinVersion(res, MinVersionFromContext(ctx).minVersion)
           step == LoopStep(r, Deadline(ctx).ok)
       IN /\ calls' = calls + 1
          /\ lastRes' = res
          /\ hist' = [hist EXCEPT !.disturbed = @ \/ res.err = "Internal",
                                  !.allInsuf = @ /\ Insufficient(res),
                                  !.lateCall = @ \/ (calls >= 1 /\ ctxErr # "nil"),
                                  !.firstCallDone = @ \/ (calls = 0 /\ ctxErr # "nil"),
                                  !.retriedNotFound =
                                      @ \/ (step.do = "wait" /\ res.err = "NotFound"),
                                  !.waits = IF step.do = "wait" THEN @ + 1 ELSE @]
          /\ IF step.do = "return"
               THEN /\ pc' = "done"
                    /\ ret' = step.ret
                    /\ UNCHANGED <<delay, timerAt>>
               ELSE /\ pc' = "select"
                    /\ timerAt' = now + ForAttempt(delay)
                    /\ delay' = delay + 1
                    /\ UNCHANGED ret
  /\ UNCHANGED <<store, now, ctx, ctxErr>>
  /\ UNCHANGED <<chainVars, repoVars, concVars>>

\* case <-time.After(delay.Duration()): the timer's channel is ready.
Select_Timer ==
  /\ pc = "select"
  /\ now >= timerAt
  /\ pc' = "loop"
  /\ timerAt' = -1
  /\ UNCHANGED <<store, now, ctx, ctxErr, delay, ret, calls, lastRes, hist>>
  /\ UNCHANGED <<chainVars, repoVars, concVars>>

\* case <-ctx.Done(): return nil, ctx.Err()
Select_Done ==
  /\ pc = "select"
  /\ ctxErr # "nil"
  /\ pc' = "done"
  /\ ret' = Result(NilModel, ctxErr)
  /\ timerAt' = -1
  /\ UNCHANGED <<store, now, ctx, ctxErr, delay, calls, lastRes, hist>>
  /\ UNCHANGED <<chainVars, repoVars, concVars>>

\* -------------------------------------------------------------- environment
\* Another goroutine saves a model under the identifier (an upsert; saving the
\* model that is already stored changes nothing and is left out).  The
\* environment is followed until Find has returned.
Save ==
  /\ pc # "done"
  /\ \E m \in Models :
       /\ m # store
       /\ store' = m
       /\ hist' = [hist EXCEPT
                     !.disturbed = @ \/ (store.kind = "versioned"
                                         /\ (m.kind # "versioned" \/ m.version < store.version)),
                     !.reachedEarly = @ \/ Early(m, now)]
  /\ UNCHANGED <<now, ctx, ctxErr, pc, delay, timerAt, ret, calls, lastRes>>
  /\ UNCHANGED <<chainVars, repoVars, concVars>>

\* Another goroutine removes the model.
Remove ==
  /\ pc # "done"
  /\ store # NilModel
  /\ store' = NilModel
  /\ hist' = [hist EXCEPT !.disturbed = TRUE]
  /\ UNCHANGED <<now, ctx, ctxErr, pc, delay, timerAt, ret, calls, lastRes>>
  /\ UNCHANGED <<chainVars, repoVars, concVars>>

\* The caller cancels the context.
Cancel ==
  /\ pc # "done"
  /\ ctxErr = "nil"
  /\ ctxErr' = "Canceled"
  /\ hist' = [hist EXCEPT !.cancelled = TRUE]
  /\ UNCHANGED <<store, now, ctx, pc, delay, timerAt, ret, calls, lastRes>>
  /\ UNCHANGED <<chainVars, repoVars, concVars>>

DeadlineDue == Deadline(ctx).ok /\ now >= Deadline(ctx).deadline /\ ctxErr = "nil"

\* The context's deadline passes.
DeadlineExpire ==
  /\ pc # "done"
  /\ DeadlineDue
  /\ ctxErr' = "DeadlineExceeded"
  /\ UNCHANGED <<store, now, ctx, pc, delay, timerAt, ret, calls, lastRes, hist>>
  /\ UNCHANGED <<chainVars, repoVars, concVars>>

\* Find can take a step now.
FindReady ==
  \/ pc \in {"start", "loop"}
  \/ pc = "select" /\ (now >= timerAt \/ ctxErr # "nil")

\* Time passes while Find is parked and the deadline is not due.
Tick ==
  /\ pc = "select"
  /\ ~FindReady
  /\ ~DeadlineDue
  /\ now < MaxTime
  /\ now' = now + 1
  /\ hist' = [hist EXCEPT !.reachedEarly = @ \/ Early(store, now + 1),
                          !.dueSufficient = @ \/ (now + 1 = timerAt /\ Early(store, now + 1))]
  /\ UNCHANGED <<store, ctx, ctxErr, pc, delay, timerAt, ret, calls, lastRes>>
  /\ UNCHANGED <<chainVars, repoVars, concVars>>

Next ==
  \/ Find_Entry
  \/ Find_Attempt
  \/ Select_Timer
  \/ Select_Done
  \/ Save
  \/ Remove
  \/ Cancel
  \/ DeadlineExpire
  \/ Tick

Spec == Init /\ [][Next]_vars

\* Find's goroutine is scheduled: a step of Find that stays possible is taken.
FindStep == Find_Entry \/ Find_Attempt \/ Select_Timer \/ Select_Done

FairSpec == Spec /\ WF_vars(FindStep) /\ WF_vars(DeadlineExpire)

\* As FairSpec, and time passes: the timer and the deadline come due.
LiveSpec == FairSpec /\ WF_vars(Tick)

\* ------------------------------------------------------------- properties
\* The context carries a minimum version M >= 1.
MinRequested == ctx.minOk /\ ctx.minVersion >= 1

CtxErrors == {"DeadlineExceeded", "Canceled"}

Returned == pc = "done"

Success == Returned /\ ret.err = "nil"

\* C1: with a minimum version M >= 1 in the context, a model that Find returns
\* without error is versionable and its version is at least M, whatever the
\* store updates, the deadline and the cancellation did.
C1_SuccessHasMinVersion ==
  (MinRequested /\ Success) =>
    /\ ret.model.kind = "versioned"
    /\ ret.model.version >= ctx.minVersion

\* reached: a success on a retry, under a deadline
C1_Witness ==
  MinRequested /\ Success /\ calls >= 2 /\ ret.model.version = ctx.minVersion

\* C2: without a minimum version, or with one below 1, Find calls the wrapped
\* repository once and returns what it returned, model or error, unchecked and
\* without a wait, with or without a deadline.
C2_PassThrough ==
  (Returned /\ (~ctx.minOk \/ ctx.minVersion < 1)) =>
    /\ calls = 1
    /\ ret = lastRes
    /\ hist.waits = 0
    /\ now = 0

\* reached: a minimum version 0 and a deadline, a model without version returned
C2_Witness ==
  /\ Returned /\ ctx.minOk /\ ctx.minVersion = 0 /\ ctx.hasDeadline
  /\ ret = Result(Plain, "nil")

\* C3: with M >= 1 and no deadline, Find never waits; it returns after one call
\* to the wrapped repository, with NotFound when there was no model and with
\* IncorrectVersion when the model's version was below M.
C3_NoDeadlineOneAttempt ==
  (MinRequested /\ ~ctx.hasDeadline) =>
    /\ pc # "select"
    /\ hist.waits = 0
    /\ Returned =>
         /\ calls = 1
         /\ now = 0
         /\ lastRes.err = "NotFound" => ret = Result(NilModel, "NotFound")
         /\ (lastRes.err = "nil" /\ lastRes.model.kind = "versioned"
             /\ lastRes.model.version < ctx.minVersion)
              => ret = Result(NilModel, "IncorrectVersion")

\* reached: IncorrectVersion after one call, without a deadline
C3_Witness ==
  /\ MinRequested /\ ~ctx.hasDeadline /\ Returned
  /\ ret.err = "IncorrectVersion" /\ calls = 1

\* C4, as claimed: with a deadline and M >= 1, when the stored version reaches M
\* strictly before the deadline (and never decreases, the storage does not fail
\* and the caller does not cancel), Find returns the model without error.
C4_Original ==
  (MinRequested /\ ctx.hasDeadline /\ Returned /\ hist.reachedEarly
   /\ ~hist.disturbed /\ ~hist.cancelled) => Success

\* C4, amended: with a deadline and M >= 1, Find returns the model without error
\* when the version is at least M at one of its attempts: the stored version
\* was at least M when a backoff interval ended strictly before the deadline
\* (it never decreased, the storage did not fail, the caller did not cancel).
\* A deadline shorter than the first interval (100 ms) leaves one attempt.
C4_Amended ==
  /\ (MinRequested /\ ctx.hasDeadline /\ Returned /\ hist.dueSufficient
      /\ ~hist.disturbed /\ ~hist.cancelled)
       => (Success /\ ret.model.version >= ctx.minVersion)
  /\ (MinRequested /\ ctx.hasDeadline /\ ctx.deadline < 10) => calls <= 1

\* reached: the version was reached during the first wait, the retry returned it
C4_Witness ==
  /\ MinRequested /\ ctx.hasDeadline /\ hist.dueSufficient
  /\ ~hist.disturbed /\ ~hist.cancelled
  /\ Success /\ calls = 2 /\ now = 10

\* The scenario of C4: store at version 2, minimum version 3, deadline 50 ms,
\* version 3 saved after 20 ms: Find has returned DeadlineExceeded.
C4_ScenarioFails ==
  /\ hist.store0 = Versioned(2) /\ ctx.minVersion = 3 /\ ctx.minOk
  /\ ctx.hasDeadline /\ ctx.deadline = 5
  /\ store = Versioned(3) /\ hist.reachedEarly /\ ~hist.disturbed /\ ~hist.cancelled
  /\ Returned /\ ret = Result(NilModel, "DeadlineExceeded")

\* C5: with a deadline and M >= 1, when every Find of the wrapped repository
\* yielded NotFound or a versionable model below M, Find returns the context's
\* error, never IncorrectVersion or NotFound.
C5_DeadlineError ==
  (MinRequested /\ ctx.hasDeadline /\ Returned /\ hist.allInsuf) =>
    /\ ret.err \in CtxErrors
    /\ ret.err = ctxErr
    /\ ret.model = NilModel

\* reached: DeadlineExceeded after a retry
C5_Witness ==
  /\ MinRequested /\ ctx.hasDeadline /\ Returned /\ hist.allInsuf
  /\ calls >= 2 /\ ret.err = "DeadlineExceeded"

\* C6: with M >= 1, when the wrapped repository returns a model without the
\* Versionable capability, Find has returned ModelHasNoVersion: no wait and no
\* further call follows, with or without a deadline.
C6_NoVersionNotRetried ==
  (MinRequested /\ calls >= 1 /\ lastRes.err = "nil" /\ lastRes.model.kind = "plain") =>
    /\ Returned
    /\ ret = Result(NilModel, "ModelHasNoVersion")

\* reached: under a deadline, on a retry
C6_Witness ==
  /\ MinRequested /\ ctx.hasDeadline /\ calls >= 2 /\ lastRes = Result(Plain, "nil")
  /\ Returned

C8_InternalReturned ==
  (MinRequested /\ calls >= 1 /\ lastRes.err = "Internal") =>
    /\ Returned
    /\ ret = Result(NilModel, "Internal")

\* reached: under a deadline, on a retry
C8_Witness ==
  /\ MinRequested /\ ctx.hasDeadline /\ calls >= 2 /\ lastRes.err = "Internal"
  /\ Returned

\* C9, as claimed: once the context is done while Find (M >= 1, a deadline) is
\* in its backoff wait, Find makes no further attempt, also when the timer is
\* due at the same moment.
C9_Original ==
  [][(MinRequested /\ ctx.hasDeadline /\ pc = "select" /\ ctxErr # "nil")
       => pc' # "loop"]_vars

\* C10: when the store held version V >= M >= 1 as Find was called, under a
\* deadline that had not passed, and the version never decreased (no removal,
\* no storage failure), Find returns, and returns without error a model whose
\* version is at least V.
C10_Premise ==
  /\ MinRequested /\ ctx.hasDeadline /\ ctx.deadline > 0
  /\ hist.store0.kind = "versioned" /\ hist.store0.version >= ctx.minVersion

C10_Ordering ==
  /\ []((C10_Premise /\ Returned /\ ~hist.disturbed) =>
          /\ ret.err = "nil"
          /\ ret.model.kind = "versioned"
          /\ ret.model.version >= hist.store0.version)
  /\ []((C10_Premise /\ ~hist.disturbed) => pc # "select")
  /\ ((pc = "start" /\ C10_Premise) ~> (Returned \/ hist.disturbed))

\* reached: a newer version than V, saved before the attempt, is returned
C10_Witness ==
  /\ C10_Premise /\ Returned /\ ~hist.disturbed /\ ret.err = "nil"
  /\ ret.model.version > hist.store0.version /\ ctxErr = "Canceled"

\* C13: a Find with M >= 1 terminates.  Without a deadline it has returned
\* once its one attempt is made; with a deadline it is not running any more
\* when the clock passes the deadline, and it returns; once the context is
\* done the loop does not go on for ever.
C13_Terminates ==
  /\ []((MinRequested /\ ~ctx.hasDeadline /\ calls >= 1) => Returned)
  /\ []((MinRequested /\ ctx.hasDeadline /\ ~Returned) => now <= ctx.deadline)
  /\ (MinRequested ~> Returned)

\* reached: returned at the deadline, after two retries
C13_Witness ==
  /\ MinRequested /\ ctx.hasDeadline /\ Returned /\ calls >= 3
  /\ ret.err = "DeadlineExceeded" /\ now = ctx.deadline

\* C14: Find only reads the wrapped repository: no step of Find, on any path,
\* changes the stored model.
C14_FindReadOnly ==
  [][(pc' # pc \/ calls' # calls \/ ret' # ret) => store' = store]_vars

\* reached: Find met a model without version on a retry, and it is still stored
C14_Witness ==
  /\ MinRequested /\ Returned /\ calls >= 2
  /\ ret.err = "ModelHasNoVersion" /\ store = Plain

\* C18: with M >= 1, whenever Find returns an error, the model it returns is
\* nil: a model that is too old or has no version is never returned beside it.
C18_ErrorHasNoModel ==
  (MinRequested /\ Returned /\ ret.err # "nil") => ret.model = NilModel

\* reached: IncorrectVersion returned without a deadline, the wrapped
\* repository having returned a model
C18_Witness ==
  /\ MinRequested /\ ~ctx.hasDeadline /\ Returned /\ ret.err = "IncorrectVersion"
  /\ lastRes.model.kind = "versioned" /\ ret.model = NilModel

\* C19: with M >= 1, Find does not test the context before its first attempt:
\* it never returns without having called the wrapped repository, and when the
\* context was done as the first attempt was made and that attempt found a
\* versionable model of version >= M, Find returns it without error.
C19_FirstAttemptIgnoresCtx ==
  /\ (MinRequested /\ Returned) => calls >= 1
  /\ (MinRequested /\ Returned /\ hist.firstCallDone /\ calls = 1
      /\ lastRes.err = "nil" /\ Sufficient(lastRes.model))
       => (ret = Result(lastRes.model, "nil"))

\* reached: the deadline had passed at the call, the model is returned
C19_Witness ==
  /\ MinRequested /\ ctx.hasDeadline /\ ctx.deadline = 0
  /\ ctxErr = "DeadlineExceeded" /\ hist.firstCallDone
  /\ Success /\ calls = 1

\* ======================================================= the chain walker
\* A repository chain: decorators, each a version Repo ("gate") or another
\* middleware ("deco"), above one concrete store; or no repository at all.
RECURSIVE SeqsUpTo(_, _)
SeqsUpTo(S, n) ==
  IF n = 0 THEN {<<>>}
  ELSE LET shorter == SeqsUpTo(S, n - 1)
       IN shorter \cup {Append(q, x) : q \in shorter, x \in S}

Chains == {<<>>} \cup {Append(q, "store") : q \in SeqsUpTo({"gate", "deco"}, MaxDepth)}

\* (*Repo).Parent(): the wrapped repository, the next one in the chain.
RepoParent(ch, i) == IF i < Len(ch) THEN i + 1 ELSE 0

\* Parent() of another repository: the repository it wraps, nil for the store.
OtherParent(ch, i) == IF ch[i] = "store" \/ i >= Len(ch) THEN 0 ELSE i + 1

\* Mutant: a repo that is not a gate ends the search.
RepositoryStep_NoRecursion(ch, repo) ==
  IF repo = 0 THEN [return |-> TRUE, value |-> 0]
  ELSE IF ch[repo] = "gate" THEN [return |-> TRUE, value |-> repo]
  ELSE [return |-> TRUE, value |-> 0]

\* One call of Repository(repo): nil for nil, repo when it is a *Repo, and
\* otherwise the call Repository(repo.Parent()).
RepositoryStep(ch, repo) ==
  IF repo = 0 THEN [return |-> TRUE, value |-> 0]
  ELSE IF ch[repo] = "gate" THEN [return |-> TRUE, value |-> repo]
  ELSE [return |-> FALSE, value |-> OtherParent(ch, repo)]

InitChain ==
  /\ chain \in Chains
  /\ wrepo = (IF chain = <<>> THEN 0 ELSE 1)
  /\ wpc = "walk"
  /\ wret = 0
  /\ wsteps = 0
  /\ FindIdle /\ RepoIdle /\ ConcIdle

\* Repository(repo) is entered, with the repo of the caller or of the recursion.
Repository ==
  /\ wpc = "walk"
  /\ LET st == RepositoryStep(chain, wrepo)
     IN IF st.return
          THEN /\ wpc' = "done"
               /\ wret' = st.value
               /\ UNCHANGED <<wrepo, wsteps>>
          ELSE /\ wrepo' = st.value
               /\ wsteps' = wsteps + 1
               /\ UNCHANGED <<wpc, wret>>
  /\ UNCHANGED chain
  /\ UNCHANGED <<findVars, repoVars, concVars>>

\* The gate found is asked for its parent (Repo.Parent), as a caller that goes
\* on to the repository below the gate does.
GateParent ==
  /\ wpc = "done"
  /\ wret # 0
  /\ wrepo = wret
  /\ wrepo' = RepoParent(chain, wret)
  /\ UNCHANGED <<chain, wpc, wret, wsteps>>
  /\ UNCHANGED <<findVars, repoVars, concVars>>

NextChain == Repository \/ GateParent

ChainSpec == InitChain /\ [][NextChain]_vars

\* The nearest gate of a chain: the least index of a gate, 0 when there is none.
GateIndexes(ch) == {i \in 1..Len(ch) : ch[i] = "gate"}

NearestGate(ch) ==
  IF GateIndexes(ch) = {} THEN 0
  ELSE CHOOSE i \in GateIndexes(ch) : \A j \in GateIndexes(ch) : i <= j

\* C11: Repository(repo) returns nil for a nil repo and for a chain without a
\* version Repo, and otherwise the Repo nearest to repo (repo itself when it is
\* one); it makes at most as many Parent() calls as the chain has
\* repositories, and changes nothing in the chain.
C11_ChainWalker ==
  /\ [](wpc = "done" => wret = NearestGate(chain))
  /\ [](wsteps <= Len(chain))
  /\ [](wpc = "walk" => (wrepo = 0 \/ wrepo \in 1..Len(chain)))
  /\ [][chain' = chain]_vars

\* reached: the gate found below three other decorators
C11_Witness ==
  /\ wpc = "done" /\ wret = 4 /\ wsteps = 3
  /\ Len(chain) >= 5 /\ chain[5] = "gate"

\* ========================================= the document-store repository
\* What UpsertId stores for a model and what One(model) decodes into the model
\* made by the factory: the model's fields, as a document.
Encode(m) == <<m.kind, m.version>>
Decode(d) == [kind |-> d[1], version |-> d[2]]

\* Mutant: Save inserts, and leaves a document that exists as it is.
MongoSave_InsertOnly(c, id, m, fail) ==
  IF fail THEN [coll |-> c, err |-> "CouldNotSaveModel"]
  ELSE IF c[id] # NoDoc THEN [coll |-> c, err |-> "nil"]
  ELSE [coll |-> [c EXCEPT ![id] = Encode(m)], err |-> "nil"]

\* ReadRepository.Save: UpsertId(id, model); any error of the database is
\* returned as ErrCouldNotSaveModel.  fail: the database operation fails.
MongoSave(c, id, m, fail) ==
  IF fail THEN [coll |-> c, err |-> "CouldNotSaveModel"]
  ELSE [coll |-> [c EXCEPT ![id] = Encode(m)], err |-> "nil"]

\* ReadRepository.Find: ErrModelNotSet without a factory; FindId(id).One(model),
\* any error of which (no document, a failure) is returned as ErrModelNotFound.
MongoFind(c, fac, id, fail) ==
  IF ~fac THEN Result(NilModel, "ModelNotSet")
  ELSE IF fail \/ c[id] = NoDoc THEN Result(NilModel, "NotFound")
  ELSE Result(Decode(c[id]), "nil")

\* ReadRepository.FindAll: ErrModelNotSet without a factory; every document
\* decoded, or the error of the iterator.
MongoFindAll(c, fac, fail) ==
  IF ~fac THEN [models |-> {}, err |-> "ModelNotSet"]
  ELSE IF fail THEN [models |-> {}, err |-> "Internal"]
  ELSE [models |-> {<<i, Decode(c[i])>> : i \in {j \in Ids : c[j] # NoDoc}}, err |-> "nil"]

\* ReadRepository.Remove: RemoveId(id), any error of which (no document, a
\* failure) is returned as ErrModelNotFound.
MongoRemove(c, id, fail) ==
  IF fail \/ c[id] = NoDoc THEN [coll |-> c, err |-> "NotFound"]
  ELSE [coll |-> [c EXCEPT ![id] = NoDoc], err |-> "nil"]

\* The contexts the gate's other operations are called with: with and without
\* a minimum version and a deadline, cancelled or not.
GateContexts ==
  {[c |-> cx, done |-> d] :
     cx \in {k \in Contexts : /\ k.deadline = 10
                              /\ k.minOk => k.minVersion = 2
                              /\ ~k.minOk => ~k.hasDeadline},
     d \in BOOLEAN}

\* The models saved in the repository.
RepoModels == {Plain, Versioned(1), Versioned(2)}

\* Repo embeds eh.ReadWriteRepo: Save, FindAll and Remove of a Repo are the
\* wrapped repository's, called with the caller's arguments.  Each gives what
\* the operation returns and the calls made to the wrapped repository.
GateSave(cx, c, id, m, fail) ==
  [out |-> MongoSave(c, id, m, fail),
   wcalls |-> <<[op |-> "Save", id |-> id, model |-> m]>>]

\* Mutant: FindAll leaves out the models below the context's minimum version.
GateFindAll_MinVersion(cx, c, fac, fail) ==
  LET all == MongoFindAll(c, fac, fail)
  IN [out |-> [all EXCEPT !.models =
                 {e \in @ : ~cx.c.minOk \/ e[2].version >= cx.c.minVersion}],
      wcalls |-> <<[op |-> "FindAll", id |-> 0, model |-> NilModel]>>]

GateFindAll(cx, c, fac, fail) ==
  [out |-> MongoFindAll(c, fac, fail),
   wcalls |-> <<[op |-> "FindAll", id |-> 0, model |-> NilModel]>>]

GateRemove(cx, c, id, fail) ==
  [out |-> MongoRemove(c, id, fail),
   wcalls |-> <<[op |-> "Remove", id |-> id, model |-> NilModel]>>]

\* The state after NewReadRepositoryWithSession: no factory, an empty collection.
InitRepo ==
  /\ coll = [i \in Ids |-> NoDoc]
  /\ factory = FALSE
  /\ amap = [i \in Ids |-> NilModel]
  /\ rop = [op |-> "none"]
  /\ FindIdle /\ ChainIdle /\ ConcIdle

\* The map that a successful Save and Remove make of the map before.
MapSave(mp, id, m, err) == IF err = "nil" THEN [mp EXCEPT ![id] = m] ELSE mp
MapRemove(mp, id, err) == IF err = "nil" THEN [mp EXCEPT ![id] = NilModel] ELSE mp

\* ReadRepository.SetModel
SetModel ==
  /\ ~factory
  /\ factory' = TRUE
  /\ rop' = [op |-> "SetModel"]
  /\ UNCHANGED <<coll, amap>>
  /\ UNCHANGED <<findVars, chainVars, concVars>>

Repo_Save ==
  /\ \E id \in Ids, m \in RepoModels, fail \in BOOLEAN :
       LET r == MongoSave(coll, id, m, fail)
       IN /\ coll' = r.coll
          /\ amap' = MapSave(amap, id, m, r.err)
          /\ rop' = [op |-> "Save", via |-> "store", id |-> id, model |-> m,
                     fail |-> fail, fac |-> factory, before |-> amap, err |-> r.err]
  /\ UNCHANGED factory
  /\ UNCHANGED <<findVars, chainVars, concVars>>

Repo_Find ==
  /\ \E id \in Ids, fail \in BOOLEAN :
       rop' = [op |-> "Find", via |-> "store", id |-> id, fail |-> fail,
               fac |-> factory, before |-> amap,
               res |-> MongoFind(coll, factory, id, fail)]
  /\ UNCHANGED <<coll, factory, amap>>
  /\ UNCHANGED <<findVars, chainVars, concVars>>

Repo_Remove ==
  /\ \E id \in Ids, fail \in BOOLEAN :
       LET r == MongoRemove(coll, id, fail)
       IN /\ coll' = r.coll
          /\ amap' = MapRemove(amap, id, r.err)
          /\ rop' = [op |-> "Remove", via |-> "store", id |-> id, fail |-> fail,
                     fac |-> factory, before |-> amap, err |-> r.err]
  /\ UNCHANGED factory
  /\ UNCHANGED <<findVars, chainVars, concVars>>

\* Save, FindAll and Remove called on the gate that wraps the repository.
Gate_Save ==
  /\ \E cx \in GateContexts, id \in Ids, m \in RepoModels, fail \in BOOLEAN :
       LET g == GateSave(cx, coll, id, m, fail)
           w == MongoSave(coll, id, m, fail)
       IN /\ coll' = g.out.coll
          /\ amap' = MapSave(amap, id, m, g.out.err)
          /\ rop' = [op |-> "Save", via |-> "gate", cx |-> cx, id |-> id, model |-> m,
                     fail |-> fail, fac |-> factory, before |-> amap,
                     out |-> g.out, wout |-> w, wcalls |-> g.wcalls]
  /\ UNCHANGED factory
  /\ UNCHANGED <<findVars, chainVars, concVars>>

Gate_FindAll ==
  /\ \E cx \in GateContexts, fail \in BOOLEAN :
       LET g == GateFindAll(cx, coll, factory, fail)
           w == MongoFindAll(coll, factory, fail)
       IN rop' = [op |-> "FindAll", via |-> "gate", cx |-> cx, id |-> 0,
                  model |-> NilModel, fail |-> fail, fac |-> factory, before |-> amap,
                  out |-> g.out, wout |-> w, wcalls |-> g.wcalls]
  /\ UNCHANGED <<coll, factory, amap>>
  /\ UNCHANGED <<findVars, chainVars, concVars>>

Gate_Remove ==
  /\ \E cx \in GateContexts, id \in Ids, fail \in BOOLEAN :
       LET g == GateRemove(cx, coll, id, fail)
           w == MongoRemove(coll, id, fail)
       IN /\ coll' = g.out.coll
          /\ amap' = MapRemove(amap, id, g.out.err)
          /\ rop' = [op |-> "Remove", via |-> "gate", cx |-> cx, id |-> id,
                     model |-> NilModel, fail |-> fail, fac |-> factory, before |-> amap,
                     out |-> g.out, wout |-> w, wcalls |-> g.wcalls]
  /\ UNCHANGED factory
  /\ UNCHANGED <<findVars, chainVars, concVars>>

NextRepo ==
  \/ SetModel
  \/ Repo_Save
  \/ Repo_Find
  \/ Repo_Remove
  \/ Gate_Save
  \/ Gate_FindAll
  \/ Gate_Remove

RepoSpec == InitRepo /\ [][NextRepo]_vars

\* C12: Save, FindAll and Remove called on the gate make one call of the same
\* operation on the wrapped repository, with the same arguments, and return
\* what it returns, whatever minimum version, deadline or cancellation the
\* context carries; FindAll returns the models below the minimum version too.
C12_OthersPassThrough ==
  (rop.op \in {"Save", "FindAll", "Remove"} /\ rop.via = "gate") =>
    /\ rop.wcalls = <<[op |-> rop.op, id |-> rop.id, model |-> rop.model]>>
    /\ rop.out = rop.wout

\* reached: FindAll under a cancelled context with minimum version 2 and a
\* deadline returns a model of version 1
C12_Witness ==
  /\ rop.op = "FindAll" /\ rop.via = "gate"
  /\ rop.cx.done /\ rop.cx.c.minOk /\ rop.cx.c.minVersion = 2 /\ rop.cx.c.hasDeadline
  /\ <<1, Versioned(1)>> \in rop.out.models

\* What a map from identifier to model answers to Find(id).
MapFind(mp, id) ==
  IF mp[id] = NilModel THEN Result(NilModel, "NotFound") ELSE Result(mp[id], "nil")

Duration_Shared(ds, c) ==
  [interval |-> ForAttempt(ds[1]), ds |-> [k \in DOMAIN ds |-> ds[1] + 1]]

\* delay.Duration() of call c, whose delay is the call's own local variable:
\* the interval of the counter's attempt, and the counter advanced.
Duration(ds, c) ==
  [interval |-> ForAttempt(ds[c]), ds |-> [ds EXCEPT ![c] = @ + 1]]

\* delay := &backoff.Backoff{} at the start of each call.
InitConc ==
  /\ cpc = [c \in Calls |-> "loop"]
  /\ cdelay = [c \in Calls |-> 0]
  /\ cwaits = [c \in Calls |-> <<>>]
  /\ FindIdle /\ ChainIdle /\ RepoIdle

\* An attempt of call c returns (a result that is not retried).
Conc_Return(c) ==
  /\ cpc[c] = "loop"
  /\ cpc' = [cpc EXCEPT ![c] = "done"]
  /\ UNCHANGED <<cdelay, cwaits>>
  /\ UNCHANGED <<findVars, chainVars, repoVars>>

\* An attempt of call c is to be retried: the select is entered and its timer
\* started with delay.Duration().
Conc_Wait(c) ==
  /\ cpc[c] = "loop"
  /\ Len(cwaits[c]) < MaxRetries
  /\ LET d == Duration(cdelay, c)
     IN /\ cdelay' = d.ds
        /\ cwaits' = [cwaits EXCEPT ![c] = Append(@, d.interval)]
  /\ cpc' = [cpc EXCEPT ![c] = "select"]
  /\ UNCHANGED <<findVars, chainVars, repoVars>>

\* The timer of call c fires.
Conc_Timer(c) ==
  /\ cpc[c] = "select"
  /\ cpc' = [cpc EXCEPT ![c] = "loop"]
  /\ UNCHANGED <<cdelay, cwaits>>
  /\ UNCHANGED <<findVars, chainVars, repoVars>>

\* The context of call c is done.
Conc_Done(c) ==
  /\ cpc[c] = "select"
  /\ cpc' = [cpc EXCEPT ![c] = "done"]
  /\ UNCHANGED <<cdelay, cwaits>>
  /\ UNCHANGED <<findVars, chainVars, repoVars>>

NextConc ==
  \E c \in Calls :
    \/ Conc_Return(c)
    \/ Conc_Wait(c)
    \/ Conc_Timer(c)
    \/ Conc_Done(c)

BackoffSpec == InitConc /\ [][NextConc]_vars

\* C15: the backoff is the call's own: the k-th interval a call waits is the
\* interval of its own (k-1)-th retry, 100 ms at first, whatever the other
\* calls on the same Repo have done, and a retry of one call leaves the other
\* call's counter as it is.
C15_BackoffPerCall ==
  /\ [](\A c \in Calls : \A k \in 1..Len(cwaits[c]) :
          cwaits[c][k] = Min2(10 * Pow(2, k - 1), 1000))
  /\ [](\A c \in Calls : cdelay[c] = Len(cwaits[c]))
  /\ [][\A c \in Calls : cpc'[c] = cpc[c] => cdelay'[c] = cdelay[c]]_vars

\* reached: one call has retried three times, the other then waits its first 100 ms
C15_Witness ==
  /\ Len(cwaits[1]) = 3 /\ cwaits[1][3] = 40
  /\ cwaits[2] = <<10>> /\ cpc[2] = "select" /\ cpc[1] = "select"

\* C16, as claimed: every interval a call waits is strictly greater than the
\* one it waited before.
C16_Original ==
  \A c \in Calls : \A k \in 1..(Len(cwaits[c]) - 1) : cwaits[c][k + 1] > cwaits[c][k]

\* C16, amended: within one call each interval is twice the one before, so
\* strictly greater, until the interval reaches the backoff's maximum of 10 s
\* (at the 8th wait); from then on every wait is 10 s.
C16_Amended ==
  \A c \in Calls : \A k \in 1..(Len(cwaits[c]) - 1) :
    /\ cwaits[c][k + 1] >= cwaits[c][k]
    /\ cwaits[c][k] < 500 => cwaits[c][k + 1] = 2 * cwaits[c][k]
    /\ cwaits[c][k] >= 500 => cwaits[c][k + 1] = 1000
    /\ cwaits[c][k] < 1000 => cwaits[c][k + 1] > cwaits[c][k]

\* reached: the 8th and the 9th wait of a call are both 10 s
C16_Witness ==
  /\ Len(cwaits[1]) = 9 /\ cwaits[1][7] = 640
  /\ cwaits[1][8] = 1000 /\ cwaits[1][9] = 1000

=============================================================================
